---- MODULE Spec2Model ----
(***************************************************************************)
(* A model of the HLS relay (yuzubb/test-live): the provider-fallback      *)
(* resolver getHlsUrlFromInvidious, the two Express routes, and the pure   *)
(* text functions rewriteHlsManifest and replaceDomain.                    *)
(*                                                                         *)
(* JavaScript strings are modelled as sequences of one-character strings,  *)
(* so that split, join, trim, startsWith and URL parsing are computed      *)
(* character by character.                                                 *)
(***************************************************************************)
EXTENDS Integers, Sequences, FiniteSets, TLC

VARIABLES req, rw, rd

vars == <<req, rw, rd>>

(***************************************************************************)
(* String primitives (the methods of String.prototype that are used)      *)
(***************************************************************************)

\* s.startsWith(p)
StartsWith(s, p) ==
    /\ Len(p) <= Len(s)
    /\ SubSeq(s, 1, Len(p)) = p

\* s.substring(n) with a 0-based start, i.e. s without its first n characters
Drop(s, n) == SubSeq(s, n + 1, Len(s))

\* s.indexOf(c) + 1 for a single character c (0 when absent)
IndexOf(s, c) ==
    IF \E i \in 1..Len(s) : s[i] = c
    THEN CHOOSE i \in 1..Len(s) : s[i] = c /\ \A j \in 1..(i - 1) : s[j] # c
    ELSE 0

\* s.lastIndexOf(c) + 1 for a single character c (0 when absent)
LastIndexOf(s, c) ==
    IF \E i \in 1..Len(s) : s[i] = c
    THEN CHOOSE i \in 1..Len(s) : s[i] = c /\ \A j \in (i + 1)..Len(s) : s[j] # c
    ELSE 0

\* the characters String.prototype.trim removes that occur in the model
WhiteSpace == {" ", "\t", "\r", "\n"}

RECURSIVE TrimStart(_)
TrimStart(s) ==
    IF s # <<>> /\ Head(s) \in WhiteSpace THEN TrimStart(Tail(s)) ELSE s

RECURSIVE TrimEnd(_)
TrimEnd(s) ==
    IF s # <<>> /\ s[Len(s)] \in WhiteSpace
    THEN TrimEnd(SubSeq(s, 1, Len(s) - 1))
    ELSE s

\* s.trim()
Trim(s) == TrimEnd(TrimStart(s))

\* s.split(c): always at least one piece
RECURSIVE Split(_, _)
Split(s, c) ==
    LET i == IndexOf(s, c)
    IN  IF i = 0 THEN <<s>>
        ELSE <<SubSeq(s, 1, i - 1)>> \o Split(Drop(s, i), c)

\* pieces.join(c)
RECURSIVE Join(_, _)
Join(pieces, c) ==
    IF pieces = <<>> THEN <<>>
    ELSE IF Len(pieces) = 1 THEN pieces[1]
    ELSE pieces[1] \o <<c>> \o Join(Tail(pieces), c)

\* array.map(f)
MapSeq(f(_), s) == [i \in 1..Len(s) |-> f(s[i])]

(***************************************************************************)
(* Node's legacy url module, as far as url.resolve(from, to) uses it.      *)
(* Scope of the model: lower-case input, no userinfo, no port, no          *)
(* backslash, and protocols that are followed by "//" (http, https, ftp).  *)
(***************************************************************************)

Letters ==
    {"a", "b", "c", "d", "e", "f", "g", "h", "i", "j", "k", "l", "m",
     "n", "o", "p", "q", "r", "s", "t", "u", "v", "w", "x", "y", "z"}

Digits == {"0", "1", "2", "3", "4", "5", "6", "7", "8", "9"}

\* protocolPattern = /^[a-z0-9.+-]+:/i
ProtoChars == Letters \cup Digits \cup {".", "+", "-"}

Http == <<"h", "t", "t", "p", ":">>

Https == <<"h", "t", "t", "p", "s", ":">>

Ftp == <<"f", "t", "p", ":">>

File == <<"f", "i", "l", "e", ":">>

\* slashedProtocol: protocols that are always followed by "//"
SlashedProtocol == {Http, Https, Ftp, File}

\* hostlessProtocol: protocols that never have a host
HostlessProtocol == {<<"j", "a", "v", "a", "s", "c", "r", "i", "p", "t", ":">>}

\* autoEscape: characters that url.parse percent-encodes in the path
RECURSIVE AutoEscape(_)
AutoEscape(s) ==
    IF s = <<>> THEN <<>>
    ELSE IF Head(s) = " " THEN <<"%", "2", "0">> \o AutoEscape(Tail(s))
    ELSE <<Head(s)>> \o AutoEscape(Tail(s))

\* 1 + the length of the longest prefix of s holding none of the characters cs
FirstOf(s, cs) ==
    IF \E i \in 1..Len(s) : s[i] \in cs
    THEN CHOOSE i \in 1..Len(s) : s[i] \in cs /\ \A j \in 1..(i - 1) : s[j] \notin cs
    ELSE Len(s) + 1

\* url.parse, last step: the search is split off, what is left is the pathname
ParseSearch(proto, slashes, hasHost, host, rest, hash) ==
    LET qAt == IndexOf(rest, "?")
    IN  [protocol |-> proto,
         slashes  |-> slashes,
         hasHost  |-> hasHost,
         host     |-> host,
         pathname |-> IF qAt > 1 THEN SubSeq(rest, 1, qAt - 1)
                      ELSE IF qAt = 0 /\ rest # <<>> THEN rest
                      ELSE IF proto \in SlashedProtocol /\ host # <<>> THEN <<"/">>
                      ELSE <<>>,
         hasSearch |-> qAt > 0,
         search   |-> IF qAt > 0 THEN Drop(rest, qAt - 1) ELSE <<>>,
         hash     |-> hash]

\* url.parse: the hash is split off
ParseHash(proto, slashes, hasHost, host, rest) ==
    LET hashAt == IndexOf(rest, "#")
    IN  ParseSearch(proto, slashes, hasHost, host,
                    IF hashAt > 0 THEN SubSeq(rest, 1, hashAt - 1) ELSE rest,
                    IF hashAt > 0 THEN Drop(rest, hashAt - 1) ELSE <<>>)

\* url.parse: the host runs up to the first "/", "?" or "#"; the rest is escaped
ParseHost(proto, slashes, rest) ==
    LET hostEnd == FirstOf(rest, {"/", "?", "#"})
    IN  IF /\ proto \notin HostlessProtocol
           /\ (slashes \/ (proto # <<>> /\ proto \notin SlashedProtocol))
        THEN ParseHash(proto, slashes, TRUE, SubSeq(rest, 1, hostEnd - 1),
                       AutoEscape(Drop(rest, hostEnd - 1)))
        ELSE ParseHash(proto, slashes, FALSE, <<>>, AutoEscape(rest))

\* url.parse: "//" after the protocol (or at the start) announces a host
ParseSlashes(proto, rest) ==
    IF StartsWith(rest, <<"/", "/">>) /\ proto \notin HostlessProtocol
    THEN ParseHost(proto, TRUE, Drop(rest, 2))
    ELSE ParseHost(proto, FALSE, rest)

\* url.parse: the protocol is what protocolPattern matches
ParseProtocol(rest) ==
    LET colon == IndexOf(rest, ":")
    IN  IF colon > 1 /\ \A i \in 1..(colon - 1) : rest[i] \in ProtoChars
        THEN ParseSlashes(SubSeq(rest, 1, colon), Drop(rest, colon))
        ELSE ParseSlashes(<<>>, rest)

\* url.parse(url, false, true): slashesDenoteHost is set by url.resolve
UrlParse(url) == ParseProtocol(Trim(url))

\* Url.prototype.format
UrlFormat(u) ==
    IF u.slashes \/ (u.protocol \in SlashedProtocol /\ u.host # <<>>)
    THEN u.protocol \o <<"/", "/">> \o u.host
           \o (IF u.pathname # <<>> /\ u.pathname[1] # "/" THEN <<"/">> ELSE <<>>)
           \o u.pathname \o u.search \o u.hash
    ELSE u.protocol \o u.host \o u.pathname \o u.search \o u.hash

\* the backwards loop of resolveObject over srcPath[1..i]: single dots are
\* removed, a double dot removes itself and the nearest kept segment before it
RECURSIVE StripDots(_, _, _, _)
StripDots(segs, i, up, acc) ==
    IF i = 0 THEN [segs |-> acc, up |-> up]
    ELSE IF segs[i] = <<".">> THEN StripDots(segs, i - 1, up, acc)
    ELSE IF segs[i] = <<".", ".">> THEN StripDots(segs, i - 1, up + 1, acc)
    ELSE IF up > 0 THEN StripDots(segs, i - 1, up - 1, acc)
    ELSE StripDots(segs, i - 1, up, <<segs[i]>> \o acc)

RECURSIVE Ups(_)
Ups(n) == IF n = 0 THEN <<>> ELSE <<<<".", ".">>>> \o Ups(n - 1)

\* relPath.shift() until a non-empty piece is found: that piece, and what is left
RECURSIVE ShiftHost(_)
ShiftHost(relPath) ==
    IF relPath = <<>> THEN [host |-> <<>>, left |-> <<>>]
    ELSE IF Head(relPath) # <<>> THEN [host |-> Head(relPath), left |-> Tail(relPath)]
    ELSE ShiftHost(Tail(relPath))

\* if (relPath[0] !== '') relPath.unshift(''); if (relPath.length < 2) relPath.unshift('')
PadShifted(left) ==
    IF left = <<>> THEN <<<<>>, <<>>>>
    ELSE IF left[1] # <<>> THEN <<<<>>>> \o left
    ELSE IF Len(left) < 2 THEN <<<<>>>> \o left
    ELSE left

\* resolveObject: relative.protocol is a slashed protocol other than the source's
ResolveOtherProtocol(base, rel, shifted) ==
    IF rel.host = <<>> /\ rel.protocol # File /\ rel.protocol \notin HostlessProtocol
    THEN [rel EXCEPT !.host = shifted.host,
                     !.hasHost = TRUE,
                     !.pathname = Join(PadShifted(shifted.left), "/"),
                     !.slashes = base.slashes \/ rel.slashes]
    ELSE [rel EXCEPT !.slashes = base.slashes \/ rel.slashes]

\* const isRelAbs = relative.host || relative.pathname.charAt(0) === '/'
IsRelAbs(rel) == rel.host # <<>> \/ (rel.pathname # <<>> /\ rel.pathname[1] = "/")

\* let mustEndAbs = isRelAbs || isSourceAbs || (result.host && relative.pathname)
MustEndAbs(base, rel) ==
    \/ IsRelAbs(rel)
    \/ (base.pathname # <<>> /\ base.pathname[1] = "/")
    \/ (base.host # <<>> /\ rel.pathname # <<>>)

\* pathname.split('/'), [] for no pathname
PathSegs(pathname) == IF pathname # <<>> THEN Split(pathname, "/") ELSE <<>>

\* srcPath after the relative path replaced it or was appended to its directory
MergedPath(base, rel) ==
    IF IsRelAbs(rel) THEN PathSegs(rel.pathname)
    ELSE IF rel.pathname # <<>>
    THEN LET srcPath == PathSegs(base.pathname)
         IN  SubSeq(srcPath, 1, Len(srcPath) - 1) \o PathSegs(rel.pathname)
    ELSE PathSegs(base.pathname)

\* the result of resolveObject but for its pathname
ResolvedFrame(base, rel) ==
    [base EXCEPT !.hash = rel.hash,
                 !.host = IF IsRelAbs(rel) /\ rel.hasHost THEN rel.host ELSE base.host,
                 !.hasHost = IF IsRelAbs(rel) /\ rel.hasHost THEN TRUE ELSE base.hasHost,
                 !.search = IF IsRelAbs(rel) \/ rel.pathname # <<>>
                            THEN rel.search ELSE base.search,
                 !.hasSearch = IF IsRelAbs(rel) \/ rel.pathname # <<>>
                               THEN rel.hasSearch ELSE base.hasSearch,
                 !.slashes = base.slashes \/ rel.slashes]

\* if (mustEndAbs && !isAbsolute) srcPath.unshift(''); pathname = srcPath.join('/')
PutPathname(frame, mustEndAbs, srcPath) ==
    IF (mustEndAbs \/ (frame.host # <<>> /\ srcPath # <<>>))
       /\ ~(srcPath # <<>> /\ srcPath[1] = <<>>)
    THEN [frame EXCEPT !.pathname = Join(<<<<>>>> \o srcPath, "/")]
    ELSE [frame EXCEPT !.pathname = Join(srcPath, "/")]

\* if (hasTrailingSlash && srcPath.join('/').slice(-1) !== '/') srcPath.push('')
PutTrailingSlash(frame, mustEndAbs, hasTrailingSlash, srcPath) ==
    IF hasTrailingSlash /\ ~(Len(srcPath) >= 2 /\ srcPath[Len(srcPath)] = <<>>)
    THEN PutPathname(frame, mustEndAbs, srcPath \o <<<<>>>>)
    ELSE PutPathname(frame, mustEndAbs, srcPath)

\* if (mustEndAbs && srcPath[0] !== '') srcPath.unshift('')
PutLeadingSlash(frame, mustEndAbs, hasTrailingSlash, srcPath) ==
    IF mustEndAbs /\ (srcPath = <<>> \/ srcPath[1] # <<>>)
    THEN PutTrailingSlash(frame, mustEndAbs, hasTrailingSlash, <<<<>>>> \o srcPath)
    ELSE PutTrailingSlash(frame, mustEndAbs, hasTrailingSlash, srcPath)

\* if the path may go above the root, the leading ..s are restored
RestoreUps(frame, mustEndAbs, hasTrailingSlash, stripped) ==
    IF mustEndAbs
    THEN PutLeadingSlash(frame, mustEndAbs, hasTrailingSlash, stripped.segs)
    ELSE PutLeadingSlash(frame, mustEndAbs, hasTrailingSlash,
                         Ups(stripped.up) \o stripped.segs)

\* resolveObject from "if (!srcPath.length)" on
ResolvePath(frame, rel, mustEndAbs, srcPath) ==
    IF srcPath = <<>>
    THEN [frame EXCEPT !.pathname = <<>>]
    ELSE RestoreUps(frame, mustEndAbs,
                    \/ /\ (frame.host # <<>> \/ rel.host # <<>> \/ Len(srcPath) > 1)
                       /\ srcPath[Len(srcPath)] \in {<<".">>, <<".", ".">>}
                    \/ srcPath[Len(srcPath)] = <<>>,
                    StripDots(srcPath, Len(srcPath), 0, <<>>))

\* Url.prototype.resolveObject(relative), both arguments parsed
ResolveObject(base, rel) ==
    IF UrlFormat(rel) = <<>>
    \* the relative url is empty: only the hash is overridden
    THEN [base EXCEPT !.hash = rel.hash]
    ELSE IF rel.slashes /\ rel.protocol = <<>>
    \* hrefs like //foo/bar always cut to the protocol
    THEN [rel EXCEPT !.protocol = base.protocol,
                     !.pathname = IF base.protocol \in SlashedProtocol
                                     /\ rel.host # <<>> /\ rel.pathname = <<>>
                                  THEN <<"/">> ELSE rel.pathname]
    ELSE IF rel.protocol # <<>> /\ rel.protocol # base.protocol
    THEN IF rel.protocol \notin SlashedProtocol
         THEN rel
         ELSE ResolveOtherProtocol(base, rel, ShiftHost(Split(rel.pathname, "/")))
    ELSE IF ~IsRelAbs(rel) /\ rel.pathname = <<>> /\ rel.hasSearch
    \* just pull out the search, like href='?foo'
    THEN [base EXCEPT !.search = rel.search, !.hasSearch = TRUE, !.hash = rel.hash]
    ELSE ResolvePath(ResolvedFrame(base, rel), rel, MustEndAbs(base, rel),
                     MergedPath(base, rel))

\* url.resolve(from, to)
UrlResolve(from, to) == UrlFormat(ResolveObject(UrlParse(from), UrlParse(to)))

(***************************************************************************)
(* rewriteHlsManifest                                                      *)
(***************************************************************************)

\* const base = baseUrl.substring(0, baseUrl.lastIndexOf('/') + 1)
ManifestBase(baseUrl) == SubSeq(baseUrl, 1, LastIndexOf(baseUrl, "/"))

\* the reference was prefixed with the base instead of being resolved, and
\* the test for an already absolute reference was left out
RewriteLine_concat(line, base) ==
    IF Trim(line) # <<>> /\ ~StartsWith(line, <<"#">>)
    THEN base \o Trim(line)
    ELSE line

\* the test for a protocol-relative reference was left out
RewriteLine_noProtocolRelative(line, base) ==
    IF Trim(line) # <<>> /\ ~StartsWith(line, <<"#">>)
    THEN IF StartsWith(line, Http \o <<"/", "/">>)
            \/ StartsWith(line, Https \o <<"/", "/">>)
         THEN line
         ELSE UrlResolve(base, Trim(line))
    ELSE line

\* the callback of map: url.resolve does not throw on strings, so the catch
\* branch (return line) is never taken
RewriteLine(line, base) ==
    IF Trim(line) # <<>> /\ ~StartsWith(line, <<"#">>)
    THEN IF StartsWith(line, Http \o <<"/", "/">>)
            \/ StartsWith(line, Https \o <<"/", "/">>)
            \/ StartsWith(line, <<"/", "/">>)
         THEN line
         ELSE UrlResolve(base, Trim(line))
    ELSE line

\* blank lines were filtered out before the map
rewriteHlsManifest_dropBlank(manifestContent, baseUrl) ==
    LET base == ManifestBase(baseUrl)
        rewrite(line) == RewriteLine(line, base)
        kept == SelectSeq(Split(manifestContent, "\n"), LAMBDA l : Trim(l) # <<>>)
    IN  Join(MapSeq(rewrite, kept), "\n")

rewriteHlsManifest(manifestContent, baseUrl) ==
    LET base == ManifestBase(baseUrl)
        rewrite(line) == RewriteLine(line, base)
    IN  Join(MapSeq(rewrite, Split(manifestContent, "\n")), "\n")

(***************************************************************************)
(* Inputs of the rewriter: manifests of up to MaxLines lines drawn from    *)
(* LineVocab, the example of the specification, and source URLs.           *)
(***************************************************************************)

MaxLines == 2

LineVocab ==
    {<<>>,
     <<" ", "\r">>,
     <<"#", "E">>,
     <<"s">>,
     <<"s", "\r">>,
     <<" ", "s">>,
     <<".", ".", "/", "s">>,
     <<"/", "s">>,
     <<"h", "t", "t", "p", ":", "/", "/", "c", "/", "s">>,
     <<"h", "t", "t", "p", "s", ":", "/", "/", "c", "/", "s">>,
     <<"/", "/", "c", "/", "s">>,
     <<" ", "#", "f">>,
     <<"f", "t", "p", ":", "/", "/", "c", "/", "s">>}

SourceUrls ==
    {<<"h", "t", "t", "p", "s", ":", "/", "/", "h", "/", "p", "/", "m">>,
     <<"h", "t", "t", "p", ":", "/", "/", "h", "/", "m">>,
     <<"h", "t", "t", "p", "s", ":", "/", "/", "h">>,
     <<"h", "t", "t", "p", "s", ":", "/", "/", "h", "/", "p", "/", "m", "?", "x", "=", "/", "y">>,
     <<"p", "/", "m">>,
     <<"m">>,
     <<"/", "p", "/", "m">>}

ExampleManifest ==
    <<"#", "E", "X", "T", "M", "3", "U", "\n", "s", "e", "g", "0", ".",
      "t", "s", "\n", "h", "t", "t", "p", "s", ":", "/", "/", "c", "d",
      "n", ".", "x", "/", "s", "e", "g", "1", ".", "t", "s", "\n", "#",
      "E", "X", "T", "-", "X", "-", "E", "N", "D", "L", "I", "S", "T">>

ExampleUrl ==
    <<"h", "t", "t", "p", "s", ":", "/", "/", "h", "o", "s", "t", "/", "p",
      "a", "t", "h", "/", "m", "a", "s", "t", "e", "r", ".", "m", "3", "u",
      "8">>

ExampleOutput ==
    <<"#", "E", "X", "T", "M", "3", "U", "\n", "h", "t", "t", "p", "s",
      ":", "/", "/", "h", "o", "s", "t", "/", "p", "a", "t", "h", "/", "s",
      "e", "g", "0", ".", "t", "s", "\n", "h", "t", "t", "p", "s", ":",
      "/", "/", "c", "d", "n", ".", "x", "/", "s", "e", "g", "1", ".", "t",
      "s", "\n", "#", "E", "X", "T", "-", "X", "-", "E", "N", "D", "L",
      "I", "S", "T">>

RECURSIVE LineSeqs(_)
LineSeqs(n) ==
    IF n = 0 THEN {<<>>}
    ELSE LET shorter == LineSeqs(n - 1)
         IN  shorter \cup {ls \o <<l>> : ls \in {x \in shorter : Len(x) = n - 1},
                                          l \in LineVocab}

ManifestTexts ==
    {Join(ls, "\n") : ls \in LineSeqs(MaxLines) \ {<<>>}} \cup {ExampleManifest}

\* the state of the rewriter's harness before rewriteHlsManifest is applied
RwIdle == [stage |-> 0, manifestContent |-> <<>>, baseUrl |-> <<>>,
           once |-> <<>>, twice |-> <<>>]

RewriteInit ==
    /\ rw \in {[RwIdle EXCEPT !.manifestContent = m, !.baseUrl = u] :
                 m \in ManifestTexts, u \in SourceUrls \cup {ExampleUrl}}
    /\ req = <<>>
    /\ rd = <<>>

\* absoluteManifest = rewriteHlsManifest(manifestContent, finalHlsUrl)
Rewrite ==
    /\ rw.stage = 0
    /\ rw' = [rw EXCEPT !.stage = 1,
                        !.once = rewriteHlsManifest(rw.manifestContent, rw.baseUrl)]
    /\ UNCHANGED <<req, rd>>

\* the rewritten manifest is rewritten again with the same source URL
RewriteAgain ==
    /\ rw.stage = 1
    /\ rw' = [rw EXCEPT !.stage = 2,
                        !.twice = rewriteHlsManifest(rw.once, rw.baseUrl)]
    /\ UNCHANGED <<req, rd>>

RewriteNext == Rewrite \/ RewriteAgain

SpecRewrite == RewriteInit /\ [][RewriteNext]_vars

(***************************************************************************)
(* Properties of rewriteHlsManifest, checked under SpecRewrite             *)
(***************************************************************************)

RwLinesIn == Split(rw.manifestContent, "\n")

RwLinesOut == Split(rw.once, "\n")

\* a line the rewriter is to leave alone: blank, a directive, or a reference
\* that begins with http://, https:// or //
PassThrough(line) ==
    \/ Trim(line) = <<>>
    \/ StartsWith(line, <<"#">>)
    \/ StartsWith(line, <<"h", "t", "t", "p", ":", "/", "/">>)
    \/ StartsWith(line, <<"h", "t", "t", "p", "s", ":", "/", "/">>)
    \/ StartsWith(line, <<"/", "/">>)

\* the source URL begins with http:// or https://
IsAbsoluteHttp(u) ==
    \/ StartsWith(u, <<"h", "t", "t", "p", ":", "/", "/">>)
    \/ StartsWith(u, <<"h", "t", "t", "p", "s", ":", "/", "/">>)

\* C7: the rewritten manifest has as many lines as the input, line i of the
\* output is what the rewriter makes of line i of the input alone, and a line
\* that was not blank is not blank afterwards.
C7_LinesPreserved ==
    rw.stage >= 1 =>
        /\ Len(RwLinesOut) = Len(RwLinesIn)
        /\ \A i \in 1..Len(RwLinesIn) :
             /\ RwLinesOut[i] = rewriteHlsManifest(RwLinesIn[i], rw.baseUrl)
             /\ (Trim(RwLinesIn[i]) # <<>> => Trim(RwLinesOut[i]) # <<>>)

\* C7 witness: a manifest of several lines, one of them blank and one of them
\* a relative reference that was replaced, has been rewritten.
C7_Witness ==
    /\ rw.stage = 1
    /\ Len(RwLinesIn) >= 2
    /\ \E i \in 1..Len(RwLinesIn) : Trim(RwLinesIn[i]) = <<>>
    /\ \E i \in 1..Len(RwLinesIn) :
         i <= Len(RwLinesOut) /\ RwLinesOut[i] # RwLinesIn[i]

\* C8: blank lines, lines beginning with '#' and references beginning with
\* http://, https:// or // are unchanged; every other line is replaced by the
\* resolution of the reference against the source URL cut after its last '/';
\* the example of the specification comes out as the specification says.
C8_OnlyRelativeReferencesChange ==
    rw.stage >= 1 =>
        /\ Len(RwLinesOut) = Len(RwLinesIn)
        /\ \A i \in 1..Len(RwLinesIn) :
             IF PassThrough(RwLinesIn[i])
             THEN RwLinesOut[i] = RwLinesIn[i]
             ELSE RwLinesOut[i] =
                    UrlResolve(SubSeq(rw.baseUrl, 1, LastIndexOf(rw.baseUrl, "/")),
                               Trim(RwLinesIn[i]))
        /\ (rw.manifestContent = ExampleManifest /\ rw.baseUrl = ExampleUrl
              => rw.once = ExampleOutput)

\* C8 witness: the example of the specification has been rewritten, two of
\* its lines being directives, one absolute and one relative.
C8_Witness ==
    /\ rw.stage = 1
    /\ rw.manifestContent = ExampleManifest
    /\ rw.baseUrl = ExampleUrl
    /\ rw.once # rw.manifestContent

\* C9 as stated: rewriting the rewritten manifest again changes nothing, for
\* every manifest and every source URL, absolute or not.
C9_IdempotentForEveryUrl ==
    rw.stage = 2 => rw.twice = rw.once

\* C9 amended: rewriting the rewritten manifest again changes nothing when the
\* source URL is absolute (begins with http:// or https://).
C9_IdempotentForAbsoluteUrl ==
    (rw.stage = 2 /\ IsAbsoluteHttp(rw.baseUrl)) => rw.twice = rw.once

\* C9 witness: a manifest was rewritten twice with an absolute source URL and
\* the first pass replaced a reference.
C9_Witness ==
    /\ rw.stage = 2
    /\ IsAbsoluteHttp(rw.baseUrl)
    /\ rw.once # rw.manifestContent
    /\ rw.twice = rw.once

(***************************************************************************)
(* The WHATWG URL class, as far as replaceDomain uses it: new URL(input),  *)
(* the hostname and protocol setters and toString.  Scope of the model:    *)
(* lower-case input, no userinfo, no backslash, no IPv4/IPv6 host, no      *)
(* file: URL.                                                              *)
(***************************************************************************)

\* the special schemes (file: is not modelled)
SpecialSchemes ==
    {<<"h", "t", "t", "p">>, <<"h", "t", "t", "p", "s">>, <<"f", "t", "p">>,
     <<"w", "s">>, <<"w", "s", "s">>}

\* the default port of a special scheme, <<>> when the scheme has none
DefaultPort(scheme) ==
    IF scheme = <<"h", "t", "t", "p">> \/ scheme = <<"w", "s">> THEN <<"8", "0">>
    ELSE IF scheme = <<"h", "t", "t", "p", "s">> \/ scheme = <<"w", "s", "s">>
    THEN <<"4", "4", "3">>
    ELSE IF scheme = <<"f", "t", "p">> THEN <<"2", "1">>
    ELSE <<>>

\* the characters of a host that parses
HostChars == Letters \cup Digits \cup {".", "-"}

\* new URL(input) threw a TypeError
UrlFailure ==
    [ok |-> FALSE, scheme |-> <<>>, special |-> FALSE, hasHost |-> FALSE,
     host |-> <<>>, port |-> <<>>, opaque |-> FALSE, path |-> <<>>,
     query |-> <<>>, fragment |-> <<>>]

\* the path state over the segments of a path: "." is dropped, ".." drops the
\* segment before it, and either leaves an empty segment when it comes last
RECURSIVE PathState(_, _)
PathState(segs, acc) ==
    IF segs = <<>> THEN acc
    ELSE IF Head(segs) = <<".", ".">>
    THEN PathState(Tail(segs),
                   (IF acc = <<>> THEN acc ELSE SubSeq(acc, 1, Len(acc) - 1))
                     \o (IF Len(segs) = 1 THEN <<<<>>>> ELSE <<>>))
    ELSE IF Head(segs) = <<".">>
    THEN PathState(Tail(segs), acc \o (IF Len(segs) = 1 THEN <<<<>>>> ELSE <<>>))
    ELSE PathState(Tail(segs), acc \o <<Head(segs)>>)

\* the serialized path of a URL with a list path
ListPath(special, rest) ==
    IF rest = <<>>
    THEN IF special THEN <<"/">> ELSE <<>>
    ELSE <<"/">> \o Join(PathState(Split(Drop(rest, 1), "/"), <<>>), "/")

\* the query is split off, what is left is the path
UrlQuery(scheme, special, hasHost, host, port, opaque, rest, fragment) ==
    LET qAt == IndexOf(rest, "?")
    IN  [ok |-> TRUE, scheme |-> scheme, special |-> special, hasHost |-> hasHost,
         host |-> host, port |-> port, opaque |-> opaque,
         path |-> IF opaque
                  THEN (IF qAt > 0 THEN SubSeq(rest, 1, qAt - 1) ELSE rest)
                  ELSE ListPath(special, IF qAt > 0 THEN SubSeq(rest, 1, qAt - 1)
                                         ELSE rest),
         query |-> IF qAt > 0 THEN Drop(rest, qAt - 1) ELSE <<>>,
         fragment |-> fragment]

\* the fragment is split off
UrlFragment(scheme, special, hasHost, host, port, opaque, rest) ==
    LET hashAt == IndexOf(rest, "#")
    IN  UrlQuery(scheme, special, hasHost, host, port, opaque,
                 IF hashAt > 0 THEN SubSeq(rest, 1, hashAt - 1) ELSE rest,
                 IF hashAt > 0 THEN Drop(rest, hashAt - 1) ELSE <<>>)

\* host and port states: a special URL needs a host, a port is made of digits,
\* and the default port of the scheme is not kept
UrlHostPort(scheme, special, host, hasPort, port, rest) ==
    IF \/ (special /\ host = <<>>)
       \/ (hasPort /\ host = <<>>)
       \/ \E i \in 1..Len(host) : host[i] \notin HostChars
       \/ \E i \in 1..Len(port) : port[i] \notin Digits
    THEN UrlFailure
    ELSE UrlFragment(scheme, special, TRUE, host,
                     IF port = DefaultPort(scheme) THEN <<>> ELSE port,
                     FALSE, rest)

\* authority state: the authority runs up to the first "/", "?" or "#"
UrlAuthority(scheme, special, rest) ==
    LET authority == SubSeq(rest, 1, FirstOf(rest, {"/", "?", "#"}) - 1)
    IN  IF IndexOf(authority, ":") > 0
        THEN UrlHostPort(scheme, special,
                         SubSeq(authority, 1, IndexOf(authority, ":") - 1),
                         TRUE, Drop(authority, IndexOf(authority, ":")),
                         Drop(rest, Len(authority)))
        ELSE UrlHostPort(scheme, special, authority, FALSE, <<>>,
                         Drop(rest, Len(authority)))

\* special authority ignore slashes state
RECURSIVE SkipSlashes(_)
SkipSlashes(s) == IF s # <<>> /\ Head(s) = "/" THEN SkipSlashes(Tail(s)) ELSE s

\* what follows the scheme: an authority, an absolute path or an opaque path
UrlAfterScheme(scheme, rest) ==
    IF scheme \in SpecialSchemes
    THEN UrlAuthority(scheme, TRUE, SkipSlashes(rest))
    ELSE IF StartsWith(rest, <<"/", "/">>)
    THEN UrlAuthority(scheme, FALSE, Drop(rest, 2))
    ELSE IF StartsWith(rest, <<"/">>)
    THEN UrlFragment(scheme, FALSE, FALSE, <<>>, <<>>, FALSE, rest)
    ELSE UrlFragment(scheme, FALSE, FALSE, <<>>, <<>>, TRUE, rest)

\* scheme start state and scheme state: without a scheme and without a base
\* the input does not parse
UrlScheme(s) ==
    LET colon == IndexOf(s, ":")
    IN  IF /\ colon > 1
           /\ s[1] \in Letters
           /\ \A i \in 2..(colon - 1) : s[i] \in ProtoChars
        THEN UrlAfterScheme(SubSeq(s, 1, colon - 1), Drop(s, colon))
        ELSE UrlFailure

\* new URL(input): leading and trailing spaces and control characters go first
NewURL(input) == UrlScheme(Trim(input))

\* the hostname setter: nothing changes for an opaque path, for a value with
\* a ":" after the host, for an empty host of a special URL, or for a host
\* that does not parse; the value ends at the first "/", "?" or "#"
SetHostname(u, value) ==
    LET end == FirstOf(value, {"/", "?", "#", ":"})
    IN  IF \/ u.opaque
           \/ (end <= Len(value) /\ value[end] = ":")
           \/ (end = 1 /\ (u.special \/ u.port # <<>>))
           \/ \E i \in 1..(end - 1) : value[i] \notin HostChars
        THEN u
        ELSE [u EXCEPT !.host = SubSeq(value, 1, end - 1), !.hasHost = TRUE]

\* the protocol setter: the scheme is read up to the ":"; a special scheme is
\* not exchanged for one that is not special, or the other way round; the
\* default port of the new scheme is not kept
SetProtocol(u, value) ==
    LET scheme == SubSeq(value, 1, FirstOf(value, {":"}) - 1)
    IN  IF \/ scheme = <<>>
           \/ (scheme \in SpecialSchemes) # u.special
        THEN u
        ELSE [u EXCEPT !.scheme = scheme,
                       !.port = IF u.port = DefaultPort(scheme) THEN <<>> ELSE u.port]

\* URL.prototype.toString: the href
UrlHref(u) ==
    u.scheme \o <<":">>
      \o (IF u.hasHost
          THEN <<"/", "/">> \o u.host
                 \o (IF u.port # <<>> THEN <<":">> \o u.port ELSE <<>>)
          ELSE IF ~u.opaque /\ StartsWith(u.path, <<"/", "/">>)
          THEN <<"/", ".">>
          ELSE <<>>)
      \o u.path \o u.query \o u.fragment

(***************************************************************************)
(* replaceDomain                                                           *)
(***************************************************************************)

\* newDomain.replace(/https?:\/\//, ''): the first match is removed, wherever
\* it is
RECURSIVE StripSchemePrefix(_)
StripSchemePrefix(s) ==
    IF s = <<>> THEN <<>>
    ELSE IF StartsWith(s, <<"h", "t", "t", "p", ":", "/", "/">>) THEN Drop(s, 7)
    ELSE IF StartsWith(s, <<"h", "t", "t", "p", "s", ":", "/", "/">>) THEN Drop(s, 8)
    ELSE <<Head(s)>> \o StripSchemePrefix(Tail(s))

\* the result of a call: the value returned, or the exception thrown
Returned(value) == [threw |-> FALSE, value |-> value]

Thrown == [threw |-> TRUE, value |-> <<>>]

\* the try/catch was left out: the TypeError of new URL reaches the caller
ReplaceParsed_noCatch(hlsUrl, parsedUrl, newDomain) ==
    IF parsedUrl.ok
    THEN Returned(UrlHref(SetProtocol(SetHostname(parsedUrl,
                                                  StripSchemePrefix(newDomain)),
                                      Https)))
    ELSE Thrown

\* the catch block returned an empty string instead of the input
ReplaceParsed_emptyOnFailure(hlsUrl, parsedUrl, newDomain) ==
    IF parsedUrl.ok
    THEN Returned(UrlHref(SetProtocol(SetHostname(parsedUrl,
                                                  StripSchemePrefix(newDomain)),
                                      Https)))
    ELSE Returned(<<>>)

\* the body of replaceDomain once new URL(hlsUrl) returned or threw
ReplaceParsed(hlsUrl, parsedUrl, newDomain) ==
    IF parsedUrl.ok
    THEN Returned(UrlHref(SetProtocol(SetHostname(parsedUrl,
                                                  StripSchemePrefix(newDomain)),
                                      Https)))
    ELSE Returned(hlsUrl)

replaceDomain(hlsUrl, newDomain) == ReplaceParsed(hlsUrl, NewURL(hlsUrl), newDomain)

(***************************************************************************)
(* Inputs of replaceDomain: strings put together from a scheme, slashes,   *)
(* an authority, a path and a query, many of which do not parse.           *)
(***************************************************************************)

\* const TARGET_DOMAIN = 'manifest.googlevideo.com', shortened
TARGET_DOMAIN == <<"m", ".", "g">>

UrlSchemes ==
    {<<>>, <<"h", "t", "t", "p">>, <<"h", "t", "t", "p", ":">>,
     <<"h", "t", "t", "p", "s", ":">>, <<"f", "t", "p", ":">>, <<"x", ":">>}

UrlSlashes == {<<>>, <<"/">>, <<"/", "/">>}

UrlAuthorities == {<<>>, <<"c">>, <<"c", ":", "8">>, <<"c", ":", "p">>, <<"c", " ">>}

UrlPaths == {<<>>, <<"/", "s">>, <<"/", "d", "/", ".", ".", "/", "s">>}

UrlQueries == {<<>>, <<"?", "q">>}

DomainUrls ==
    {sc \o sl \o au \o pa \o qu :
        sc \in UrlSchemes, sl \in UrlSlashes, au \in UrlAuthorities,
        pa \in UrlPaths, qu \in UrlQueries}

TargetDomains ==
    {TARGET_DOMAIN,
     <<"h", "t", "t", "p", "s", ":", "/", "/">> \o TARGET_DOMAIN,
     <<"h", "t", "t", "p", ":", "/", "/">> \o TARGET_DOMAIN}

\* the state of the harness before replaceDomain is applied
RdIdle == [stage |-> 0, hlsUrl |-> <<>>, newDomain |-> <<>>, result |-> Returned(<<>>)]

DomainInit ==
    /\ rd \in {[RdIdle EXCEPT !.hlsUrl = u, !.newDomain = d] :
                 u \in DomainUrls, d \in TargetDomains}
    /\ req = <<>>
    /\ rw = <<>>

\* const finalHlsUrl = replaceDomain(hlsUrl, TARGET_DOMAIN)
Replace ==
    /\ rd.stage = 0
    /\ rd' = [rd EXCEPT !.stage = 1,
                        !.result = replaceDomain(rd.hlsUrl, rd.newDomain)]
    /\ UNCHANGED <<req, rw>>

SpecDomain == DomainInit /\ [][Replace]_vars

(***************************************************************************)
(* Properties of replaceDomain, checked under SpecDomain                   *)
(***************************************************************************)

\* C10: replaceDomain throws nothing, and returns its input unchanged when
\* the input does not parse as a URL.
C10_NoThrowInputOnFailure ==
    rd.stage = 1 =>
        /\ ~rd.result.threw
        /\ (~NewURL(rd.hlsUrl).ok => rd.result.value = rd.hlsUrl)

\* C10 witness: replaceDomain was applied to a non-empty string that does not
\* parse and gave it back.
C10_Witness ==
    /\ rd.stage = 1
    /\ rd.hlsUrl # <<>>
    /\ ~NewURL(rd.hlsUrl).ok
    /\ rd.result = Returned(rd.hlsUrl)

\* the parts of a URL the substitution is to leave alone or to set
SubstitutedFrom(in, out, targetHost) ==
    /\ out.ok
    /\ out.hasHost
    /\ out.host = targetHost
    /\ out.scheme = <<"h", "t", "t", "p", "s">>
    /\ out.path = in.path
    /\ out.query = in.query

\* C11 as stated: for an input that parses, the URL returned has the target
\* host without its scheme prefix, the scheme https whatever the scheme of
\* the input was, and the path and the query of the input.
C11_HostAndSchemeReplaced ==
    (rd.stage = 1 /\ NewURL(rd.hlsUrl).ok) =>
        /\ ~rd.result.threw
        /\ SubstitutedFrom(NewURL(rd.hlsUrl), NewURL(rd.result.value),
                           StripSchemePrefix(rd.newDomain))

\* C11 for the schemes http, https, ftp, ws and wss only (what the code does)
C11_SpecialSchemesReplaced ==
    (rd.stage = 1 /\ NewURL(rd.hlsUrl).ok /\ NewURL(rd.hlsUrl).special) =>
        /\ ~rd.result.threw
        /\ SubstitutedFrom(NewURL(rd.hlsUrl), NewURL(rd.result.value),
                           StripSchemePrefix(rd.newDomain))

(***************************************************************************)
(* JSON values of a provider's response, as far as the resolver reads them *)
(***************************************************************************)

JsUndefined == [t |-> "undefined", s |-> <<>>, items |-> <<>>]

JsNumber == [t |-> "number", s |-> <<>>, items |-> <<>>]

JsString(s) == [t |-> "string", s |-> s, items |-> <<>>]

JsArray(items) == [t |-> "array", s |-> <<>>, items |-> items]

\* what if (v) and v || w take for true: an array (also an empty one), a
\* number other than 0, a string other than ''
Truthy(v) == v.t = "array" \/ v.t = "number" \/ (v.t = "string" /\ v.s # <<>>)

\* a format descriptor
Format(container, qualityLabel, url) ==
    [container |-> container, qualityLabel |-> qualityLabel, url |-> url]

\* the parsed body: null, or an object with the three fields the resolver reads
JsonNull ==
    [isNull |-> TRUE, formatStreams |-> JsUndefined,
     adaptiveFormats |-> JsUndefined, hlsUrl |-> JsUndefined]

VideoInfo(formatStreams, adaptiveFormats, hlsUrl) ==
    [isNull |-> FALSE, formatStreams |-> formatStreams,
     adaptiveFormats |-> adaptiveFormats, hlsUrl |-> hlsUrl]

\* const HLS_FORMAT_NAME = 'hls'
HLS_FORMAT_NAME == <<"h", "l", "s">>

\* String.prototype.toLowerCase on the capitals of the model
LowerChar(c) ==
    IF c = "H" THEN "h" ELSE IF c = "L" THEN "l" ELSE IF c = "S" THEN "s"
    ELSE IF c = "D" THEN "d" ELSE c

ToLowerCase(s) == [i \in 1..Len(s) |-> LowerChar(s[i])]

\* s.includes(sub)
Includes(s, sub) ==
    \E i \in 1..(Len(s) - Len(sub) + 1) : SubSeq(s, i, i + Len(sub) - 1) = sub

\* the outcome of the body of the try block after response.json() resolved
Extracted(url) == [kind |-> "url", url |-> url]

NoHlsUrl == [kind |-> "nomatch", url |-> <<>>]

TypeError == [kind |-> "shape", url |-> <<>>]

\* f.qualityLabel && f.qualityLabel.toLowerCase().includes(HLS_FORMAT_NAME)
\* throws for a number
LabelThrows(f) == Truthy(f.qualityLabel) /\ f.qualityLabel.t # "string"

\* the callback of formats.find
IsHlsFormat(f) ==
    \/ (f.container.t = "string" /\ f.container.s = HLS_FORMAT_NAME)
    \/ /\ f.qualityLabel.t = "string"
       /\ Includes(ToLowerCase(f.qualityLabel.s), HLS_FORMAT_NAME)

\* formats.find(...): the first element the callback accepts
RECURSIVE FindHlsFormat(_)
FindHlsFormat(items) ==
    IF items = <<>> THEN [found |-> FALSE, threw |-> FALSE, url |-> JsUndefined]
    ELSE IF IsHlsFormat(Head(items))
    THEN [found |-> TRUE, threw |-> FALSE, url |-> Head(items).url]
    ELSE IF LabelThrows(Head(items))
    THEN [found |-> FALSE, threw |-> TRUE, url |-> JsUndefined]
    ELSE FindHlsFormat(Tail(items))

\* if (hlsUrl) { if (!hlsUrl.startsWith('http')) hlsUrl = url.resolve(instance,
\* hlsUrl); return hlsUrl } else the next instance is tried
UseHlsUrl(hlsUrl, instance) ==
    IF ~Truthy(hlsUrl) THEN NoHlsUrl
    ELSE IF hlsUrl.t # "string" THEN TypeError
    ELSE IF StartsWith(hlsUrl.s, <<"h", "t", "t", "p">>) THEN Extracted(hlsUrl.s)
    ELSE Extracted(UrlResolve(instance, hlsUrl.s))

\* let hlsUrl = hlsFormat ? hlsFormat.url : videoInfo.hlsUrl
PickHlsUrl(videoInfo, hlsFormat, instance) ==
    IF hlsFormat.threw THEN TypeError
    ELSE IF hlsFormat.found THEN UseHlsUrl(hlsFormat.url, instance)
    ELSE UseHlsUrl(videoInfo.hlsUrl, instance)

\* const formats = videoInfo.formatStreams || videoInfo.adaptiveFormats || []
\* and formats.find, which is no function unless formats is an array
SearchFormats(videoInfo, instance) ==
    IF Truthy(videoInfo.formatStreams)
    THEN IF videoInfo.formatStreams.t # "array" THEN TypeError
         ELSE PickHlsUrl(videoInfo, FindHlsFormat(videoInfo.formatStreams.items),
                         instance)
    ELSE IF Truthy(videoInfo.adaptiveFormats)
    THEN IF videoInfo.adaptiveFormats.t # "array" THEN TypeError
         ELSE PickHlsUrl(videoInfo, FindHlsFormat(videoInfo.adaptiveFormats.items),
                         instance)
    ELSE PickHlsUrl(videoInfo, FindHlsFormat(<<>>), instance)

\* the try block from the parsed body on: reading a field of null throws
ExtractHlsUrl(videoInfo, instance) ==
    IF videoInfo.isNull THEN TypeError ELSE SearchFormats(videoInfo, instance)

(***************************************************************************)
(* The provider resolver getHlsUrlFromInvidious and the two routes.        *)
(*                                                                         *)
(* req[r] is the state of request r: the route it came in on, where its    *)
(* handler waits (pc), the resolver's loop, the abort timers that are      *)
(* armed, and the response.  An action is one run of JavaScript from one   *)
(* await to the next, started by what the environment delivers: a          *)
(* response, a rejection, a timer, a chunk of the manifest.                *)
(***************************************************************************)

\* the length of the provider list (15 in the source)
NumInstances == 3

\* const API_TIMEOUT_MS = 5000
API_TIMEOUT_MS == 5000

\* the step of the clock and the longest wait of one attempt that is followed
TickMs == 2500

MaxWaitMs == 7500

\* the chunks miniget may deliver before it ends or fails
MaxChunks == 2

InstanceNames == <<"a", "b", "c", "d", "e", "f", "g", "h", "i", "j", "k", "l", "m", "n", "o">>

\* const INVIDIOUS_INSTANCES = [...], shortened to https://a, https://b, ...
INVIDIOUS_INSTANCES ==
    [k \in 1..NumInstances |->
        <<"h", "t", "t", "p", "s", ":", "/", "/">> \o <<InstanceNames[k]>>]

\* a stream URL on the CDN, a path on the provider, a manifest URL, and a
\* string that begins with http and is no URL
CdnUrl == <<"h", "t", "t", "p", "s", ":", "/", "/", "r", ".", "g", "/", "v">>

ProviderPath == <<"/", "p", "/", "v">>

ManifestUrl == <<"h", "t", "t", "p", ":", "/", "/", "r", ".", "g", "/", "d", "/", "m">>

NotAUrl == <<"h", "t", "t", "p", "/", "v">>

\* the bodies a provider may answer with
VideoInfos ==
    {VideoInfo(JsArray(<<Format(JsString(HLS_FORMAT_NAME), JsUndefined,
                                JsString(CdnUrl))>>),
               JsUndefined, JsUndefined),
     VideoInfo(JsUndefined,
               JsArray(<<Format(JsString(<<"m">>), JsString(<<"H", "L", "S">>),
                                JsString(ProviderPath))>>),
               JsUndefined),
     VideoInfo(JsArray(<<Format(JsString(<<"m">>), JsString(<<"H", "D">>),
                                JsString(CdnUrl))>>),
               JsUndefined, JsString(ManifestUrl)),
     VideoInfo(JsArray(<<>>),
               JsArray(<<Format(JsString(HLS_FORMAT_NAME), JsUndefined,
                                JsString(CdnUrl))>>),
               JsUndefined),
     VideoInfo(JsUndefined, JsUndefined, JsUndefined),
     JsonNull,
     VideoInfo(JsArray(<<Format(JsString(HLS_FORMAT_NAME), JsUndefined, JsNumber)>>),
               JsUndefined, JsUndefined),
     VideoInfo(JsArray(<<Format(JsString(HLS_FORMAT_NAME), JsUndefined,
                                JsString(NotAUrl))>>),
               JsUndefined, JsUndefined)}

\* the chunks of a manifest body
Chunks == {<<"#", "E", "\n">>, <<"s">>}

\* the ways miniget's stream fails
FetchErrors == {"network", "timeout", "redirects"}

\* miniget(finalHlsUrl, { maxRedirects: 5, ... })
maxRedirects == 5

\* the Location of a redirect: the manifest has moved to another host and
\* another directory
RedirectLocations ==
    {<<"h", "t", "t", "p", "s", ":", "/", "/", "e", ".", "g", "/", "n", "/", "m">>}

\* miniget follows a redirect: the next request goes to the Location
FollowRedirect(rq, location) ==
    [rq EXCEPT !.redirects = @ + 1, !.fetchedFrom = location]

\* the value of hlsUrl in a handler: null, or a string
NullUrl == [isNull |-> TRUE, url |-> <<>>]

StringUrl(u) == [isNull |-> FALSE, url |-> u]

\* the response object before the handler touched it
NewResponse ==
    [sent |-> 0, status |-> 200, allowOrigin |-> "", allowMethods |-> "",
     contentType |-> "", isText |-> FALSE, body |-> <<>>]

\* a request that has arrived on a route and whose handler has not run
NewRequest(route) ==
    [route |-> route, pc |-> "new", i |-> 0, attempts |-> <<>>, failed |-> 0,
     timedOut |-> 0, lateAbort |-> FALSE,
     timers |-> {}, elapsed |-> 0, answered |-> FALSE, answer |-> JsonNull,
     hlsUrl |-> NullUrl, finalHlsUrl |-> <<>>, fetchedFrom |-> <<>>,
     fetches |-> 0, redirects |-> 0, chunks |-> 0, data |-> <<>>,
     fetched |-> "none", manifestContent |-> <<>>, res |-> NewResponse]

\* const controller = new AbortController(); const timeoutId = setTimeout(...);
\* fetch(apiUrl, {signal}) for instance k: the loop body up to its first await
StartAttempt(rq, k) ==
    [rq EXCEPT !.pc = "fetch", !.i = k, !.attempts = @ \o <<k>>,
               !.timers = @ \cup {[attempt |-> k, left |-> API_TIMEOUT_MS]},
               !.elapsed = 0, !.answered = FALSE, !.answer = JsonNull]

\* the resolver remembered failures across requests: the first provider is
\* passed over when a request has seen a provider fail
EnterLoop_healthMemory(rq) ==
    IF NumInstances >= 2 /\ \E q \in DOMAIN req : req[q].failed > 0
    THEN StartAttempt(rq, 2)
    ELSE StartAttempt(rq, 1)

\* the first iteration of the for loop, or return null for an empty list
EnterLoop(rq) ==
    IF NumInstances >= 1 THEN StartAttempt(rq, 1)
    ELSE [rq EXCEPT !.pc = "resolved", !.hlsUrl = NullUrl]

\* console.log / console.error of the catch block: one more attempt has
\* failed, by a timeout (AbortError) or otherwise
LogFailure(rq, kind) ==
    [rq EXCEPT !.failed = @ + 1,
               !.timedOut = IF kind = "timeout" THEN @ + 1 ELSE @]

\* an error that is not caught ends the resolver with a rejection, and the
\* handler that awaits it
CatchError_rethrow(rq, kind) ==
    [LogFailure(rq, kind) EXCEPT !.pc = "crashed"]

\* the failed instance is tried again instead of the next one
CatchError_retry(rq, kind) ==
    IF Len(rq.attempts) < NumInstances
    THEN StartAttempt(LogFailure(rq, kind), rq.i)
    ELSE [LogFailure(rq, kind) EXCEPT !.pc = "resolved", !.hlsUrl = NullUrl]

\* the catch block and the end of a loop body that found no URL: the next
\* instance is tried at once, and after the last one null is returned
CatchError(rq, kind) ==
    IF rq.i < NumInstances
    THEN StartAttempt(LogFailure(rq, kind), rq.i + 1)
    ELSE [LogFailure(rq, kind) EXCEPT !.pc = "resolved", !.hlsUrl = NullUrl]

\* clearTimeout(timeoutId)
ClearTimeout(rq) ==
    [rq EXCEPT !.timers = {t \in @ : t.attempt # rq.i}]

\* the URL was found and the loop went on to the next instance all the same
AfterJson_noReturn(rq, videoInfo, extracted) ==
    IF extracted.kind = "url"
    THEN IF rq.i < NumInstances
         THEN StartAttempt([rq EXCEPT !.answered = TRUE, !.answer = videoInfo,
                                      !.hlsUrl = StringUrl(extracted.url)],
                           rq.i + 1)
         ELSE [rq EXCEPT !.pc = "resolved", !.answered = TRUE, !.answer = videoInfo,
                         !.hlsUrl = StringUrl(extracted.url)]
    ELSE CatchError([rq EXCEPT !.answered = TRUE, !.answer = videoInfo],
                    extracted.kind)

\* the try block after const videoInfo = await response.json()
AfterJson(rq, videoInfo, extracted) ==
    IF extracted.kind = "url"
    THEN [rq EXCEPT !.pc = "resolved", !.answered = TRUE, !.answer = videoInfo,
                    !.hlsUrl = StringUrl(extracted.url)]
    ELSE CatchError([rq EXCEPT !.answered = TRUE, !.answer = videoInfo],
                    extracted.kind)

\* res.status(code).send(message)
SendMessage(rq, code) ==
    [rq EXCEPT !.pc = "done", !.res.sent = @ + 1, !.res.status = code,
               !.res.isText = FALSE, !.res.body = <<>>]

\* res.send(text)
SendText(rq, text) ==
    [rq EXCEPT !.pc = "done", !.res.sent = @ + 1, !.res.isText = TRUE,
               !.res.body = text]

\* an exception left the handler: the request is not answered
Crash(rq) == [rq EXCEPT !.pc = "crashed"]

\* GET /get/url/:videoid, the three res.setHeader calls
UrlRouteHeaders(rq) ==
    [rq EXCEPT !.res.allowOrigin = "*", !.res.allowMethods = "GET",
               !.res.contentType = "text/plain"]

\* GET /get/url/:videoid from const finalHlsUrl = replaceDomain(...) on
UrlRouteSend(rq, replaced) ==
    IF replaced.threw THEN Crash(rq)
    ELSE SendText([rq EXCEPT !.finalHlsUrl = replaced.value], replaced.value)

\* the route answered 500 where it is to answer 404
UrlRouteAfterResolve_500(rq) ==
    IF rq.hlsUrl.isNull
    THEN SendMessage(UrlRouteHeaders(rq), 500)
    ELSE UrlRouteSend(UrlRouteHeaders(rq), replaceDomain(rq.hlsUrl.url, TARGET_DOMAIN))

\* GET /get/url/:videoid after await getHlsUrlFromInvidious(videoId)
UrlRouteAfterResolve(rq) ==
    IF rq.hlsUrl.isNull
    THEN SendMessage(UrlRouteHeaders(rq), 404)
    ELSE UrlRouteSend(UrlRouteHeaders(rq), replaceDomain(rq.hlsUrl.url, TARGET_DOMAIN))

\* GET /get/:id, the four res.setHeader calls
GetRouteHeaders(rq) ==
    [rq EXCEPT !.res.allowOrigin = "*", !.res.allowMethods = "GET, HEAD",
               !.res.contentType = "application/vnd.apple.mpegurl"]

\* GET /get/:id from const finalHlsUrl = replaceDomain(...) to the await of
\* the promise that collects miniget's stream
GetRouteFetch(rq, replaced) ==
    IF replaced.threw THEN Crash(rq)
    ELSE [GetRouteHeaders(rq) EXCEPT !.pc = "miniget", !.fetches = @ + 1,
                                     !.finalHlsUrl = replaced.value,
                                     !.fetchedFrom = replaced.value]

\* GET /get/:id after await getHlsUrlFromInvidious(videoId)
GetRouteAfterResolve(rq) ==
    IF rq.hlsUrl.isNull
    THEN SendMessage(rq, 500)
    ELSE GetRouteFetch(rq, replaceDomain(rq.hlsUrl.url, TARGET_DOMAIN))

\* GET /get/:id after the promise resolved: rewrite and send
GetRouteRewrite(rq) ==
    SendText(rq, rewriteHlsManifest(rq.manifestContent, rq.finalHlsUrl))

\* the error was treated like the end of the stream: what had arrived is used
GetRouteAfterError_keepData(rq, kind) ==
    GetRouteRewrite([rq EXCEPT !.fetched = kind, !.manifestContent = rq.data])

\* the return of the catch block was left out: the 500 is sent and the
\* handler goes on to rewrite and to send
GetRouteAfterError_noReturn(rq, kind) ==
    GetRouteRewrite(SendMessage([rq EXCEPT !.fetched = kind], 500))

\* GET /get/:id, the catch block: manifestContent is still '', and the 500 is
\* sent unless a response went out before
GetRouteAfterError(rq, kind) ==
    IF rq.res.sent = 0
    THEN SendMessage([rq EXCEPT !.fetched = kind], 500)
    ELSE GetRouteRewrite([rq EXCEPT !.fetched = kind])

\* GET /get/:id, stream.on('end', () => resolve(data.toString()))
GetRouteAfterEnd(rq) ==
    GetRouteRewrite([rq EXCEPT !.fetched = "end", !.manifestContent = rq.data])

\* the handler awaits fetch() or response.json()
Awaiting(rq) == rq.pc = "fetch" \/ rq.pc = "json"

\* the timer has run, and its callback has called abort(); lateAbort keeps
\* whether that has happened after the attempt of the timer was over
TimerRan(rq, t) ==
    [rq EXCEPT !.timers = @ \ {t},
               !.lateAbort = @ \/ ~(Awaiting(rq) /\ rq.i = t.attempt)]

\* one controller was shared by all the attempts of a request: abort() fails
\* the query that is awaited, whichever attempt armed the timer
Abort_sharedController(rq, t) ==
    IF Awaiting(rq)
    THEN CatchError(TimerRan(rq, t), "timeout")
    ELSE TimerRan(rq, t)

\* the callback of setTimeout: controller.abort() on the controller of the
\* attempt that armed the timer, which rejects the fetch() of that attempt
\* if it is still awaited and does nothing otherwise
Abort(rq, t) ==
    IF Awaiting(rq) /\ rq.i = t.attempt
    THEN CatchError(TimerRan(rq, t), "timeout")
    ELSE TimerRan(rq, t)

(***************************************************************************)
(* Actions                                                                 *)
(***************************************************************************)

Routes == {"url", "get"}

Init ==
    /\ req \in [{1} -> {NewRequest(route) : route \in Routes}]
    /\ rw = <<>>
    /\ rd = <<>>

\* miniget can fetch http and https URLs only; for anything else its stream
\* emits an error and nothing else
Fetchable(u) ==
    /\ NewURL(u).ok
    /\ NewURL(u).scheme \in {<<"h", "t", "t", "p">>, <<"h", "t", "t", "p", "s">>}

\* the route handler is called and runs up to the first fetch()
HandlerStart ==
    \E r \in DOMAIN req :
        /\ req[r].pc = "new"
        /\ req' = [req EXCEPT ![r] = EnterLoop(req[r])]
        /\ UNCHANGED <<rw, rd>>

\* fetch() rejects: the provider cannot be reached.  clearTimeout is skipped.
FetchRejects ==
    \E r \in DOMAIN req :
        /\ req[r].pc = "fetch"
        /\ req' = [req EXCEPT ![r] = CatchError(req[r], "network")]
        /\ UNCHANGED <<rw, rd>>

\* fetch() resolves with the status line and the headers of the response:
\* clearTimeout, then throw on !response.ok or call response.json()
FetchResponds ==
    \E r \in DOMAIN req, ok \in BOOLEAN :
        /\ req[r].pc = "fetch"
        /\ req' = [req EXCEPT ![r] =
                     IF ok THEN [ClearTimeout(req[r]) EXCEPT !.pc = "json"]
                     ELSE CatchError(ClearTimeout(req[r]), "status")]
        /\ UNCHANGED <<rw, rd>>

\* response.json() resolves with the parsed body
JsonResolves ==
    \E r \in DOMAIN req, videoInfo \in VideoInfos :
        /\ req[r].pc = "json"
        /\ req' = [req EXCEPT ![r] =
                     AfterJson(req[r], videoInfo,
                               ExtractHlsUrl(videoInfo,
                                             INVIDIOUS_INSTANCES[req[r].i]))]
        /\ UNCHANGED <<rw, rd>>

\* response.json() rejects: the body is no JSON, or the connection broke
JsonRejects ==
    \E r \in DOMAIN req :
        /\ req[r].pc = "json"
        /\ req' = [req EXCEPT ![r] = CatchError(req[r], "json")]
        /\ UNCHANGED <<rw, rd>>

\* setTimeout(() => controller.abort(), API_TIMEOUT_MS) runs: the query of
\* that attempt, if it is still awaited, fails with an AbortError
TimerFires ==
    \E r \in DOMAIN req :
        \E t \in req[r].timers :
            /\ t.left = 0
            /\ req' = [req EXCEPT ![r] = Abort(req[r], t)]
            /\ UNCHANGED <<rw, rd>>

\* the times after which something is due: a timer, or the end of the wait
\* that is followed
Dues ==
    UNION {{t.left : t \in req[r].timers} : r \in DOMAIN req}
      \cup {MaxWaitMs - req[r].elapsed :
              r \in {x \in DOMAIN req : Awaiting(req[x]) /\ req[x].elapsed < MaxWaitMs}}

\* the time that passes in one step: no timer that is due is passed over
Advance == CHOOSE d \in Dues \cup {TickMs} : \A e \in Dues \cup {TickMs} : d <= e

\* time passes
Tick ==
    /\ Dues # {}
    /\ Advance > 0
    /\ req' = [r \in DOMAIN req |->
                 [req[r] EXCEPT
                    !.timers = {[t EXCEPT !.left = @ - Advance] : t \in @},
                    !.elapsed = IF Awaiting(req[r]) /\ @ < MaxWaitMs
                                THEN @ + Advance ELSE @]]
    /\ UNCHANGED <<rw, rd>>

\* the resolver returned to GET /get/url/:videoid
UrlRouteContinues ==
    \E r \in DOMAIN req :
        /\ req[r].pc = "resolved"
        /\ req[r].route = "url"
        /\ req' = [req EXCEPT ![r] = UrlRouteAfterResolve(req[r])]
        /\ UNCHANGED <<rw, rd>>

\* the resolver returned to GET /get/:id
GetRouteContinues ==
    \E r \in DOMAIN req :
        /\ req[r].pc = "resolved"
        /\ req[r].route = "get"
        /\ req' = [req EXCEPT ![r] = GetRouteAfterResolve(req[r])]
        /\ UNCHANGED <<rw, rd>>

\* miniget receives a 3xx response with a Location before any data and has
\* redirects left: it requests the Location, and the handler sees nothing
MinigetRedirect ==
    \E r \in DOMAIN req, location \in RedirectLocations :
        /\ req[r].pc = "miniget"
        /\ Fetchable(req[r].fetchedFrom)
        /\ req[r].chunks = 0
        /\ req[r].redirects < maxRedirects
        /\ req' = [req EXCEPT ![r] = FollowRedirect(req[r], location)]
        /\ UNCHANGED <<rw, rd>>

\* stream.on('data', chunk => data += chunk)
MinigetData ==
    \E r \in DOMAIN req, chunk \in Chunks :
        /\ req[r].pc = "miniget"
        /\ Fetchable(req[r].fetchedFrom)
        /\ req[r].chunks < MaxChunks
        /\ req' = [req EXCEPT ![r].chunks = @ + 1, ![r].data = @ \o chunk]
        /\ UNCHANGED <<rw, rd>>

\* stream.on('end', ...)
MinigetEnd ==
    \E r \in DOMAIN req :
        /\ req[r].pc = "miniget"
        /\ Fetchable(req[r].fetchedFrom)
        /\ req' = [req EXCEPT ![r] = GetRouteAfterEnd(req[r])]
        /\ UNCHANGED <<rw, rd>>

\* stream.on('error', reject): the connection fails or times out at any
\* moment, or one redirect more than maxRedirects arrives
MinigetError ==
    \E r \in DOMAIN req, kind \in FetchErrors :
        /\ req[r].pc = "miniget"
        /\ kind = "redirects" =>
              (req[r].redirects = maxRedirects /\ req[r].chunks = 0)
        /\ req' = [req EXCEPT ![r] = GetRouteAfterError(req[r], kind)]
        /\ UNCHANGED <<rw, rd>>

Next ==
    \/ HandlerStart
    \/ FetchRejects
    \/ FetchResponds
    \/ JsonResolves
    \/ JsonRejects
    \/ TimerFires
    \/ Tick
    \/ UrlRouteContinues
    \/ GetRouteContinues
    \/ MinigetRedirect
    \/ MinigetData
    \/ MinigetEnd
    \/ MinigetError

Spec == Init /\ [][Next]_vars

(***************************************************************************)
(* Two requests to GET /get/url/:videoid that are handled at the same      *)
(* time: the steps of their handlers interleave in any order.  A provider  *)
(* answers 200 with one of two bodies, or cannot be reached, or is slow.   *)
(***************************************************************************)

Requests == {1, 2}

\* a body with a top-level hlsUrl, and the body null
PairVideoInfos ==
    {VideoInfo(JsUndefined, JsUndefined, JsString(ManifestUrl)), JsonNull}

PairInit ==
    /\ req \in [Requests -> {NewRequest("url")}]
    /\ rw = <<>>
    /\ rd = <<>>

\* response.json() resolves with one of the two bodies
PairJsonResolves ==
    \E r \in DOMAIN req, videoInfo \in PairVideoInfos :
        /\ req[r].pc = "json"
        /\ req' = [req EXCEPT ![r] =
                     AfterJson(req[r], videoInfo,
                               ExtractHlsUrl(videoInfo,
                                             INVIDIOUS_INSTANCES[req[r].i]))]
        /\ UNCHANGED <<rw, rd>>

PairNext ==
    \/ HandlerStart
    \/ FetchRejects
    \/ FetchResponds
    \/ PairJsonResolves
    \/ TimerFires
    \/ Tick
    \/ UrlRouteContinues

SpecPair == PairInit /\ [][PairNext]_vars

(***************************************************************************)
(* Properties of the resolver and of the routes, checked under Spec        *)
(***************************************************************************)

\* the resolver of the request has returned
ResolverReturned(rq) == rq.pc \in {"resolved", "miniget", "done"}

\* C1: the providers are queried in list order, one at a time (every query
\* but the last one issued has failed), and when a URL is returned it is the
\* URL read from the answer of the provider queried last, after which no
\* provider is queried: with k the first provider that yields a URL, exactly
\* the providers 1..k are queried.
C1_FirstSuccessWins ==
    \A r \in DOMAIN req :
        /\ req[r].attempts = [k \in 1..Len(req[r].attempts) |-> k]
        /\ Len(req[r].attempts) =
             req[r].failed + (IF Awaiting(req[r]) \/ ~req[r].hlsUrl.isNull THEN 1 ELSE 0)
        /\ ~req[r].hlsUrl.isNull =>
             /\ ResolverReturned(req[r])
             /\ req[r].answered
             /\ ExtractHlsUrl(req[r].answer,
                              INVIDIOUS_INSTANCES[req[r].attempts[Len(req[r].attempts)]])
                  = Extracted(req[r].hlsUrl.url)

\* C1 witness: the first two providers timed out, the third returned a
\* descriptor, and the resolver returned its URL after three queries.
C1_Witness ==
    \E r \in DOMAIN req :
        /\ req[r].pc = "resolved"
        /\ req[r].attempts = <<1, 2, 3>>
        /\ req[r].timedOut = 2
        /\ req[r].failed = 2
        /\ req[r].hlsUrl = StringUrl(CdnUrl)

\* C2: no exception leaves the resolver, and once the attempts with all the
\* providers have failed, for whatever reasons, the resolver has returned
\* null, having queried every provider.
C2_AllFailedReturnsNull ==
    \A r \in DOMAIN req :
        /\ req[r].pc # "crashed"
        /\ req[r].failed >= NumInstances =>
             /\ ResolverReturned(req[r])
             /\ req[r].hlsUrl.isNull
             /\ Len(req[r].attempts) = NumInstances
             /\ req[r].failed = NumInstances
        /\ (ResolverReturned(req[r]) /\ req[r].hlsUrl.isNull) => req[r].failed = NumInstances

\* C2 witness: the resolver returned null after three attempts of which one
\* timed out, one failed otherwise, and the last read a body that was null.
C2_Witness ==
    \E r \in DOMAIN req :
        /\ req[r].pc = "resolved"
        /\ req[r].hlsUrl.isNull
        /\ req[r].failed = 3
        /\ req[r].timedOut = 1
        /\ req[r].answered
        /\ req[r].answer = JsonNull

\* C3 as stated: the resolver waits for the outcome of one attempt (the
\* response and its parsed body) no longer than API_TIMEOUT_MS.
C3_AttemptBoundedByTimeout ==
    \A r \in DOMAIN req :
        Awaiting(req[r]) => req[r].elapsed <= API_TIMEOUT_MS

\* C4: GET /get/url/:id answers 404 exactly when the resolver returned null,
\* and otherwise the host-substituted URL as text/plain; GET /get/:id answers
\* 500 when the resolver returned null or the manifest fetch failed, and
\* answers anything else only with the rewrite of the manifest that was
\* fetched to its end from the host-substituted URL.
C4_OutcomeMapping ==
    \A r \in DOMAIN req :
        req[r].res.sent >= 1 =>
            IF req[r].route = "url"
            THEN /\ (req[r].res.status = 404) <=> req[r].hlsUrl.isNull
                 /\ req[r].res.status = 404 => req[r].failed = NumInstances
                 /\ ~req[r].hlsUrl.isNull =>
                      /\ req[r].res.status = 200
                      /\ req[r].res.contentType = "text/plain"
                      /\ req[r].res.isText
                      /\ req[r].res.body =
                           replaceDomain(req[r].hlsUrl.url, TARGET_DOMAIN).value
            ELSE /\ (req[r].hlsUrl.isNull \/ req[r].fetched \in FetchErrors) =>
                      (req[r].res.status = 500 /\ ~req[r].res.isText)
                 /\ req[r].res.status # 500 =>
                      /\ ~req[r].hlsUrl.isNull
                      /\ req[r].fetched = "end"
                      /\ req[r].res.status = 200
                      /\ req[r].res.contentType = "application/vnd.apple.mpegurl"
                      /\ req[r].res.isText
                      /\ req[r].finalHlsUrl =
                           replaceDomain(req[r].hlsUrl.url, TARGET_DOMAIN).value
                      /\ req[r].res.body =
                           rewriteHlsManifest(req[r].data, req[r].finalHlsUrl)

\* C4 witness: GET /get/:id has answered 200 with a manifest in which a
\* reference was rewritten.
C4_Witness ==
    \E r \in DOMAIN req :
        /\ req[r].route = "get"
        /\ req[r].res.sent = 1
        /\ req[r].res.status = 200
        /\ req[r].res.isText
        /\ req[r].res.body # req[r].data

\* C5: when the manifest fetch fails, what had arrived is dropped: the
\* request is answered 500 with no manifest, and a manifest is only ever sent
\* after the fetch came to its end.
C5_PartialDataDiscarded ==
    \A r \in DOMAIN req :
        /\ req[r].fetched \in FetchErrors =>
             /\ req[r].res.sent = 1
             /\ req[r].res.status = 500
             /\ ~req[r].res.isText
             /\ req[r].res.body = <<>>
             /\ req[r].manifestContent = <<>>
        /\ (req[r].route = "get" /\ req[r].res.isText) => req[r].fetched = "end"

\* C5 witness: the fetch failed after chunks had arrived, and the request was
\* answered 500.
C5_Witness ==
    \E r \in DOMAIN req :
        /\ req[r].fetched = "timeout"
        /\ req[r].chunks = 2
        /\ req[r].data # <<>>
        /\ req[r].res.sent = 1
        /\ req[r].res.status = 500

\* C6 as stated: every response that is sent carries
\* Access-Control-Allow-Origin: * and Access-Control-Allow-Methods.
C6_EveryResponseHasCors ==
    \A r \in DOMAIN req :
        req[r].res.sent >= 1 =>
            (req[r].res.allowOrigin = "*" /\ req[r].res.allowMethods # "")

\* C12 as stated: a URL the resolver returns is an absolute URL (one that
\* new URL accepts without a base).
C12_ResultIsAbsolute ==
    \A r \in DOMAIN req :
        ~req[r].hlsUrl.isNull => NewURL(req[r].hlsUrl.url).ok

\* a collection of the body holds a descriptor whose container is 'hls' or
\* whose quality label contains 'hls', with a URL that is a non-empty string
HoldsHlsUrl(collection) ==
    /\ collection.t = "array"
    /\ \E n \in 1..Len(collection.items) :
          /\ IsHlsFormat(collection.items[n])
          /\ collection.items[n].url.t = "string"
          /\ collection.items[n].url.s # <<>>

\* C13 as stated: when formatStreams or adaptiveFormats of a parsed body holds
\* an hls descriptor, the attempt that read the body succeeds with a URL.
C13_DescriptorInAnyCollectionIsUsed ==
    \A r \in DOMAIN req :
        ( /\ req[r].answered
          /\ ~req[r].answer.isNull
          /\ \/ HoldsHlsUrl(req[r].answer.formatStreams)
             \/ HoldsHlsUrl(req[r].answer.adaptiveFormats) )
        => ~req[r].hlsUrl.isNull

\* C14 as stated: the manifest that GET /get/:id sends is the rewrite of the
\* fetched content against the URL the content was fetched from, also when
\* miniget followed redirects.
C14_BaseIsFetchedUrl ==
    \A r \in DOMAIN req :
        (req[r].route = "get" /\ req[r].res.sent >= 1 /\ req[r].res.isText) =>
            req[r].res.body = rewriteHlsManifest(req[r].data, req[r].fetchedFrom)

\* C15 as stated: a timer that is pending belongs to the attempt the resolver
\* is waiting for; none is left from an attempt that is over.
C15_NoTimerOutlivesAttempt ==
    \A r \in DOMAIN req :
        \A t \in req[r].timers :
            Awaiting(req[r]) /\ t.attempt = req[r].i

\* C16: within one resolution no provider is queried twice, so there are at
\* most as many attempts as providers, and no more failures than attempts.
C16_EachProviderAtMostOnce ==
    \A r \in DOMAIN req :
        /\ Len(req[r].attempts) <= NumInstances
        /\ \A a, b \in 1..Len(req[r].attempts) :
              req[r].attempts[a] = req[r].attempts[b] => a = b
        /\ req[r].failed <= Len(req[r].attempts)

\* C16 witness: every provider was queried and failed, one of them by a
\* timeout, and the request was answered 404.
C16_Witness ==
    \E r \in DOMAIN req :
        /\ req[r].pc = "done"
        /\ req[r].res.status = 404
        /\ Len(req[r].attempts) = NumInstances
        /\ req[r].failed = NumInstances
        /\ req[r].timedOut >= 1
        /\ req[r].timedOut < NumInstances

\* C19: a request is answered at most once, it is answered once its handler
\* has come to its end and once the manifest fetch has had its outcome, and
\* GET /get/:id alone fetches a manifest, once, after the resolver returned a
\* URL.
C19_AnsweredExactlyOnce ==
    \A r \in DOMAIN req :
        /\ req[r].res.sent <= 1
        /\ (req[r].pc = "done") <=> (req[r].res.sent = 1)
        /\ req[r].fetched # "none" => req[r].res.sent = 1
        /\ req[r].fetches <= 1
        /\ req[r].fetches = 1 =>
             /\ req[r].route = "get"
             /\ ResolverReturned(req[r])
             /\ ~req[r].hlsUrl.isNull
        /\ req[r].pc = "miniget" => (req[r].fetches = 1 /\ req[r].res.sent = 0)
        /\ (req[r].route = "url" \/ req[r].hlsUrl.isNull) => req[r].fetches = 0

\* C19 witness: the manifest fetch followed a redirect, delivered a chunk and
\* broke off; the request has one response, the 500.
C19_Witness ==
    \E r \in DOMAIN req :
        /\ req[r].fetches = 1
        /\ req[r].redirects = 1
        /\ req[r].chunks = 1
        /\ req[r].fetched = "network"
        /\ req[r].res.sent = 1
        /\ req[r].res.status = 500

(***************************************************************************)
(* Properties of concurrent requests, checked under SpecPair               *)
(***************************************************************************)

\* the state of a request's handler without the clock: which timers are
\* armed, not how long they have to run
Untimed(rq) == [rq EXCEPT !.timers = {t.attempt : t \in @}, !.elapsed = 0]

\* C17: under any interleaving of the requests, every request queries the
\* providers from the first one on in list order, its result is the URL read
\* from the answer to its own last query, and a step of one request's handler
\* changes nothing of another request.
C17_RequestsIndependent ==
    [][\A r \in DOMAIN req :
          /\ req'[r].attempts = [k \in 1..Len(req'[r].attempts) |-> k]
          /\ ~req'[r].hlsUrl.isNull =>
                ExtractHlsUrl(req'[r].answer, INVIDIOUS_INSTANCES[req'[r].i])
                  = Extracted(req'[r].hlsUrl.url)
          /\ Untimed(req'[r]) # Untimed(req[r]) =>
                \A q \in DOMAIN req \ {r} : Untimed(req'[q]) = Untimed(req[q])]_vars

\* C17 witness: request 1 has failed with the first provider and waits for the
\* second, request 2 was answered by the first provider and has its URL.
C17_Witness ==
    /\ DOMAIN req = Requests
    /\ req[1].pc = "fetch"
    /\ req[1].attempts = <<1, 2>>
    /\ req[1].failed = 1
    /\ req[2].pc = "resolved"
    /\ req[2].attempts = <<1>>
    /\ req[2].hlsUrl = StringUrl(ManifestUrl)

\* C18: when a timer runs that was armed for an attempt that is over (or for
\* a request whose resolver has returned), the timer is gone and nothing else
\* has changed, in that request and in every other; when the timer of the
\* attempt in flight runs, that attempt and no other request's fails.
C18_TimerAbortsOwnAttemptOnly ==
    [][\A r \in DOMAIN req :
          \A t \in req[r].timers :
              (t.left = 0 /\ t \notin req'[r].timers) =>
                  /\ \A q \in DOMAIN req \ {r} : req'[q] = req[q]
                  /\ ~(Awaiting(req[r]) /\ req[r].i = t.attempt) =>
                        /\ req'[r].pc = req[r].pc
                        /\ req'[r].i = req[r].i
                        /\ req'[r].attempts = req[r].attempts
                        /\ req'[r].failed = req[r].failed
                        /\ req'[r].timedOut = req[r].timedOut
                        /\ req'[r].hlsUrl = req[r].hlsUrl
                        /\ req'[r].res = req[r].res
                        /\ req'[r].timers = req[r].timers \ {t}]_vars

\* C18 witness: in request 1 a timer ran after its attempt was over, no
\* attempt of either request has timed out, request 1 waits for its second
\* provider and request 2 for its first.
C18_Witness ==
    /\ DOMAIN req = Requests
    /\ req[1].lateAbort
    /\ req[1].timedOut = 0
    /\ req[1].pc = "fetch"
    /\ req[1].i = 2
    /\ req[2].pc = "fetch"
    /\ req[2].i = 1
    /\ req[2].timedOut = 0

====
